---- MODULE Spec2Model ----
(***************************************************************************)
(* Model of the synchronisation layer of nova-ecs-physics-core:            *)
(* PhysicsWorldSystem (fixed time stepping, transform refresh, collision    *)
(* dispatch), the PhysicsTransformComponent it refreshes and the            *)
(* CollisionEventComponent whose callbacks it invokes; the body, collider   *)
(* and joint systems and the engine handles they create and destroy;        *)
(* BasePhysicsPlugin's install and uninstall; the view transform of         *)
(* BasePhysicsDebugRenderer.                                                *)
(*                                                                         *)
(* Numbers.  A Fixed value is modelled by its raw integer (the number of   *)
(* resolution units it holds).  A JavaScript number is modelled on a grid  *)
(* SubUnits times finer than the Fixed resolution, so that `new Fixed(n)`   *)
(* has something to round.                                                  *)
(***************************************************************************)
EXTENDS Integers, Sequences, FiniteSets, TLC

\* ---------------------------------------------------------------- bounds
\* raw value of Fixed.ONE: resolution units per 1.0
FixedScale == 4
\* grid points of a JavaScript number per resolution unit of Fixed
SubUnits == 4
\* the model stops feeding updates that would take the accumulator past this
MaxAcc == 36
\* or below minus this
MaxDebt == 3
\* number of distinct poses the modelled engine moves a body through
PoseCount == 3
\* callbacks registered over all the lists of all the components, at most
MaxCallbacks == 3
\* bodies an entity leaves behind undestroyed, at most
MaxLeaks == 2

\* ------------------------------------------------------ program constants
\* PhysicsWorldSystem.maxSubSteps
maxSubSteps == 10

\* ------------------------------------------------------------ input sets
Entities == {"e1", "e2"}
\* entities whose body the engine moves on a step (the others are static)
Dynamic == {"e1"}
\* fixedTimeStep constructor arguments, as numbers on the fine grid
FtsInputs == {0 - SubUnits, 0, 6, 12}
\* deltaTime arguments of update, as numbers on the fine grid
DtInputs == {0 - 4, 0, 1, 2, 7, 12, 136}
\* the call of physicsWorld.step that raises (0: none does)
FailAts == {0, 1, 3, maxSubSteps}
\* the inputs of the transform refresh's specification: one fixedTimeStep and
\* deltaTimes that make an update perform 0, 1 or several steps
SyncFts == 12
SyncDtInputs == {0, 4, SyncFts, 2 * SyncFts}
SyncFailAts == {0, 1, 2}
\* alpha arguments of the interpolation queries, raw Fixed values
AlphaInputs == {0 - FixedScale, 0 - 1, 0, 1, FixedScale \div 2, FixedScale, FixedScale + 1, 2 * FixedScale}

\* the callbacks a program registers: one that only returns, one that raises,
\* one that registers Late on its own entity's list and one that registers Late
\* on the list of the entity it is called with (the list of the same kind)
Callbacks == {"rec", "thrower", "adderSelf", "adderOther"}
Late == "late"
\* what getUserData of a body gives: an entity, or one of the other outcomes
Unresolved == {"null", "nonObject", "noId", "throws"}
BodyInputs == Entities \cup Unresolved

VARIABLES
  fixedTimeStep,   \* PhysicsWorldSystem.fixedTimeStep (raw Fixed)
  accumulator,     \* PhysicsWorldSystem.accumulator (raw Fixed)
  world,           \* System.world is set
  physicsWorld,    \* PhysicsWorldSystem.physicsWorld is not null
  initPending,     \* onAddedToWorld is suspended at `await engine.initialize()`
  body,            \* body[e]: RigidBodyComponent.body of e is not null
  bodyTick,        \* engine state of e's body: the pose it is at
  priorTick,       \* history: the pose e's body had at the end of the prior fixed step
  transform,       \* transform[e]: the PhysicsTransformComponent of e
  lastOp,          \* history: the operation that produced this state
  lastDt,          \* history: deltaTime of the last update
  trace,           \* history: calls made by the last update, in order
  outcome,         \* history: how the last update ended
  nonNegDts,       \* history: every deltaTime so far was >= 0
  interp,          \* history: argument and result of the last interpolation query
  collider,        \* collider[e]: ColliderComponent.collider of e is not null
  joint,           \* joint[e]: JointComponent.joint of e is not null
  collisionComp,   \* collisionComp[e]: e has a CollisionEventComponent
  callbacks,       \* callbacks[e]: the four callback lists of that component
  dispatch,        \* history: the last collision notification and what it caused
  view,            \* BasePhysicsDebugRenderer: viewPosition, viewRotation, viewZoom
  mapped,          \* history: argument and results of the last mapping queries
  plugin,          \* BasePhysicsPlugin: its config, how far install/uninstall got,
                   \* and history: the calls its engine received, in order
  jointActive,     \* jointActive[e]: JointComponent.active of e
  destroyed,       \* destroyed[k][e]: destroy() calls the handle received that the
                   \* component of kind k of e references (0 when it references none)
  leaked,          \* leaked[e]: bodies not destroyed that carry e as user data and
                   \* that no component references
  jointDestroyedBy \* history: the handler that destroyed the joint e had last

\* the components this layer attaches engine handles and callbacks to
componentVars == <<collider, joint, collisionComp, callbacks>>

vars == <<fixedTimeStep, accumulator, world, physicsWorld, initPending, body,
          bodyTick, priorTick, transform, lastOp, lastDt, trace, outcome,
          nonNegDts, interp, collider, joint, collisionComp, callbacks, dispatch,
          view, mapped, plugin, jointActive, destroyed, leaked, jointDestroyedBy>>

\* the renderer, the plugin and what is kept of the engine handles
otherVars == <<view, mapped, plugin, jointActive, destroyed, leaked, jointDestroyedBy>>

\* ---------------------------------------------------------------- Fixed
\* new Fixed(n) for a number n: the nearest resolution unit, halves upwards
NewFixed(n) == (2 * n + SubUnits) \div (2 * SubUnits)

\* Fixed.toNumber()
ToNumber(f) == f * SubUnits

\* Fixed.multiply: the product rescaled and rounded to a resolution unit
FixedMultiply(a, b) == (2 * a * b + FixedScale) \div (2 * FixedScale)

\* --------------------------------------------------------------- engine
\* IRigidBody.getPosition() of a body at pose t
GetPosition(t) == <<2 * t + 1, 3 - 3 * t>>

\* IRigidBody.getRotation() of a body at pose t
GetRotation(t) == 5 * t - 2

\* the pose of e's body after n completed steps of the engine
Advance(e, t, n) == IF e \in Dynamic THEN (t + n) % PoseCount ELSE t

NoInterp == [entity |-> "none", alpha |-> 0, position |-> <<0, 0>>, rotation |-> 0]

\* the PhysicsTransformComponent constructor
NewTransform(position, rotation, scale) ==
  [position |-> position, rotation |-> rotation, scale |-> scale,
   previousPosition |-> <<position[1], position[2]>>,
   previousRotation |-> NewFixed(ToNumber(rotation))]

\* the scale e's transform is constructed with: the default (1, 1) or another
ScaleOf(e) == IF e \in Dynamic THEN <<2 * FixedScale, FixedScale \div 2>>
              ELSE <<FixedScale, FixedScale>>

\* the CollisionEventComponent as constructed: four empty lists
NoCallbacks == [onCollisionBegin |-> <<>>, onCollisionEnd |-> <<>>,
                onSensorBegin |-> <<>>, onSensorEnd |-> <<>>]

NoData == [bodyA |-> "null", bodyB |-> "null", isBeginContact |-> FALSE,
           isEndContact |-> FALSE, sensor |-> FALSE]
NoDispatch == [data |-> NoData, invoked |-> <<>>, emitted |-> <<>>, raised |-> FALSE]

\* ------------------------------------------- renderer, plugin, handles
\* the view transform of a renderer as constructed, and after resetViewTransform
IdentityView == [position |-> <<0, 0>>, rotation |-> 0, zoom |-> FixedScale]

NoMapped == [lastSet |-> IdentityView,
             point |-> <<0, 0>>, toScreen |-> <<0, 0>>, toWorld |-> <<0, 0>>,
             thereAndBack |-> <<0, 0>>, backAndThere |-> <<0, 0>>]

\* the plugin as its constructor leaves it, given the config passed in
NewPlugin(maxSubStepsArg, autoCreateSystemsArg) ==
  [phase |-> "constructed", maxSubSteps |-> maxSubStepsArg,
   autoCreateSystems |-> autoCreateSystemsArg, calls |-> <<>>]

\* the kinds of engine handle the component systems hold
Kinds == {"body", "collider", "joint"}

\* the renderer and the plugin as constructed with the default config, the
\* components without handles, every joint component active (its default)
OthersConstructed ==
  /\ view = IdentityView
  /\ mapped = NoMapped
  /\ plugin = NewPlugin(maxSubSteps, TRUE)
  /\ jointActive = [e \in Entities |-> TRUE]
  /\ destroyed = [k \in Kinds |-> [e \in Entities |-> 0]]
  /\ leaked = [e \in Entities |-> 0]
  /\ jointDestroyedBy = [e \in Entities |-> "none"]

\* the state the constructors leave, fixedTimeStep being the number passed in
Constructed(fixedTimeStepArg) ==
  /\ fixedTimeStep = NewFixed(fixedTimeStepArg)
  /\ accumulator = 0
  /\ world = FALSE
  /\ physicsWorld = FALSE
  /\ initPending = FALSE
  /\ body = [e \in Entities |-> FALSE]
  /\ bodyTick = [e \in Entities |-> 0]
  /\ priorTick = [e \in Entities |-> 0]
  /\ transform = [e \in Entities |-> NewTransform(GetPosition(0), GetRotation(0), ScaleOf(e))]
  /\ lastOp = "init"
  /\ lastDt = 0
  /\ trace = <<>>
  /\ outcome = "none"
  /\ nonNegDts = TRUE
  /\ interp = NoInterp
  /\ collider = [e \in Entities |-> FALSE]
  /\ joint = [e \in Entities |-> FALSE]
  /\ collisionComp = [e \in Entities |-> FALSE]
  /\ callbacks = [e \in Entities |-> NoCallbacks]
  /\ dispatch = NoDispatch
  /\ OthersConstructed

Init == \E n \in FtsInputs : Constructed(n)

\* ------------------------------------------------- PhysicsTransformComponent
\* PhysicsTransformComponent.updatePrevious
UpdatePrevious(t) ==
  [t EXCEPT !.previousPosition = <<t.position[1], t.position[2]>>,
            !.previousRotation = NewFixed(ToNumber(t.rotation))]

\* FixedVector2.lerp(a, b, t) = a + (b - a) * t, component by component
Lerp(a, b, t) ==
  <<a[1] + FixedMultiply(b[1] - a[1], t), a[2] + FixedMultiply(b[2] - a[2], t)>>

\* PhysicsTransformComponent.getInterpolatedPosition
GetInterpolatedPosition(t, alpha) == Lerp(t.previousPosition, t.position, alpha)

\* variant: alpha is clamped to [0, 1] before the blend
GetInterpolatedRotationClamped(t, alpha) ==
  LET a == IF alpha < 0 THEN 0 ELSE IF alpha > FixedScale THEN FixedScale ELSE alpha
  IN t.previousRotation + FixedMultiply(t.rotation - t.previousRotation, a)

\* PhysicsTransformComponent.getInterpolatedRotation
GetInterpolatedRotation(t, alpha) ==
  t.previousRotation + FixedMultiply(t.rotation - t.previousRotation, alpha)

\* ------------------------------------------------------ PhysicsWorldSystem
StepCall(arg) == [op |-> "step", arg |-> arg]
RefreshCall == [op |-> "refresh", arg |-> 0]

\* variant: the loop goes on until the accumulator is below or at the step
LoopConditionStrict(acc, subSteps) == acc > fixedTimeStep /\ subSteps < maxSubSteps

\* variant: the cap lets one more step through
LoopConditionOffByOne(acc, subSteps) == acc >= fixedTimeStep /\ subSteps <= maxSubSteps

\* the condition of the while loop of update
LoopCondition(acc, subSteps) == acc >= fixedTimeStep /\ subSteps < maxSubSteps

\* variant: the engine is stepped by the frame's own duration
StepArgumentDelta(acc, fixedDeltaTime) == fixedDeltaTime

\* the argument update passes to physicsWorld.step
StepArgument(acc, fixedDeltaTime) == fixedTimeStep

\* variant: the step is subtracted before the engine is called
RECURSIVE StepLoopSubtractFirst(_, _, _, _)
StepLoopSubtractFirst(acc, fixedDeltaTime, calls, failAt) ==
  IF LoopCondition(acc, Len(calls))
  THEN LET made == Append(calls, StepCall(StepArgument(acc, fixedDeltaTime)))
       IN IF Len(made) = failAt
          THEN [accumulator |-> acc - fixedTimeStep, calls |-> made, threw |-> TRUE]
          ELSE StepLoopSubtractFirst(acc - fixedTimeStep, fixedDeltaTime, made, failAt)
  ELSE [accumulator |-> acc, calls |-> calls, threw |-> FALSE]

\* variant: a step that was made is not taken off the accumulator
RECURSIVE StepLoopKeepsBacklog(_, _, _, _)
StepLoopKeepsBacklog(acc, fixedDeltaTime, calls, failAt) ==
  IF LoopCondition(acc, Len(calls))
  THEN LET made == Append(calls, StepCall(StepArgument(acc, fixedDeltaTime)))
       IN IF Len(made) = failAt
          THEN [accumulator |-> acc, calls |-> made, threw |-> TRUE]
          ELSE StepLoopKeepsBacklog(acc, fixedDeltaTime, made, failAt)
  ELSE [accumulator |-> acc, calls |-> calls, threw |-> FALSE]

\* the while loop of update, entered with the accumulator at acc and the calls
\* made so far; the call numbered failAt raises and ends the loop
RECURSIVE StepLoop(_, _, _, _)
StepLoop(acc, fixedDeltaTime, calls, failAt) ==
  IF LoopCondition(acc, Len(calls))
  THEN LET made == Append(calls, StepCall(StepArgument(acc, fixedDeltaTime)))
       IN IF Len(made) = failAt
          THEN [accumulator |-> acc, calls |-> made, threw |-> TRUE]
          ELSE StepLoop(acc - fixedTimeStep, fixedDeltaTime, made, failAt)
  ELSE [accumulator |-> acc, calls |-> calls, threw |-> FALSE]

\* variant: the time the cap left undischarged is dropped
RunUpdateDropRemainder(deltaTime, failAt) ==
  LET fixedDeltaTime == NewFixed(deltaTime)
      loop == StepLoop(accumulator + fixedDeltaTime, fixedDeltaTime, <<>>, failAt)
  IN IF loop.threw THEN loop
     ELSE [accumulator |-> IF Len(loop.calls) = maxSubSteps THEN 0 ELSE loop.accumulator,
           calls |-> Append(loop.calls, RefreshCall), threw |-> FALSE]

\* variant: the transforms are refreshed before the engine is stepped
RunUpdateRefreshFirst(deltaTime, failAt) ==
  LET fixedDeltaTime == NewFixed(deltaTime)
  IN StepLoop(accumulator + fixedDeltaTime, fixedDeltaTime, <<RefreshCall>>, failAt)

\* the body of update past its guard: the accumulator it leaves, the calls it
\* makes in order, and whether a step raised out of it
RunUpdate(deltaTime, failAt) ==
  LET fixedDeltaTime == NewFixed(deltaTime)
      loop == StepLoop(accumulator + fixedDeltaTime, fixedDeltaTime, <<>>, failAt)
  IN IF loop.threw THEN loop
     ELSE [loop EXCEPT !.calls = Append(@, RefreshCall)]

\* variant: the refresh replaces the transform by one constructed from the body
RefreshTransformRebuilt(t, tick) ==
  [NewTransform(GetPosition(tick), GetRotation(tick), <<FixedScale, FixedScale>>)
     EXCEPT !.previousPosition = <<t.position[1], t.position[2]>>,
            !.previousRotation = NewFixed(ToNumber(t.rotation))]

\* variant: the body's pose is copied in before the previous pose is saved
RefreshTransformOverwriteFirst(t, tick) ==
  UpdatePrevious([t EXCEPT !.position = GetPosition(tick), !.rotation = GetRotation(tick)])

\* one entity's pass through the loop body of updateTransforms
RefreshTransform(t, tick) ==
  [UpdatePrevious(t) EXCEPT !.position = GetPosition(tick), !.rotation = GetRotation(tick)]

\* PhysicsWorldSystem.updateTransforms, the bodies being at the poses ticks
UpdateTransforms(ticks) ==
  IF ~world THEN transform
  ELSE [e \in Entities |->
          IF body[e] THEN RefreshTransform(transform[e], ticks[e]) ELSE transform[e]]

\* the number of step calls among calls
StepCalls(calls) == Cardinality({i \in DOMAIN calls : calls[i].op = "step"})

\* an operation other than update leaves no record of an update behind
NotUpdate(op) ==
  /\ lastOp' = op
  /\ lastDt' = 0
  /\ trace' = <<>>
  /\ outcome' = "none"
  /\ dispatch' = NoDispatch

\* PhysicsWorldSystem.update on a system whose physics world exists
Update(deltaTime, failAt, half) ==
  /\ physicsWorld
  /\ \E r \in {RunUpdate(deltaTime, failAt)} :
     \E moved \in {StepCalls(r.calls) - (IF r.threw /\ ~half THEN 1 ELSE 0)} :
     \E ticks \in {[e \in Entities |->
                     IF body[e] THEN Advance(e, bodyTick[e], moved) ELSE bodyTick[e]]} :
        /\ failAt # 0 => r.threw
        /\ half => r.threw
        /\ r.accumulator \in (0 - MaxDebt)..MaxAcc
        /\ accumulator' = r.accumulator
        /\ bodyTick' = ticks
        /\ priorTick' = [e \in Entities |->
                           IF body[e] /\ moved > 0
                           THEN Advance(e, bodyTick[e], moved - 1) ELSE priorTick[e]]
        /\ transform' = IF r.threw \/ RefreshCall \notin {r.calls[i] : i \in DOMAIN r.calls}
                        THEN transform ELSE UpdateTransforms(ticks)
        /\ trace' = r.calls
        /\ outcome' = IF r.threw THEN "threw" ELSE "returned"
  /\ lastOp' = "update"
  /\ lastDt' = deltaTime
  /\ nonNegDts' = (nonNegDts /\ deltaTime >= 0)
  /\ dispatch' = NoDispatch
  /\ UNCHANGED <<fixedTimeStep, world, physicsWorld, initPending, body, interp>>
  /\ UNCHANGED componentVars
  /\ UNCHANGED otherVars

\* variant: the skipped frame's deltaTime is still put on the accumulator
UpdateSkippedCarried(deltaTime) ==
  /\ ~physicsWorld
  /\ accumulator + NewFixed(deltaTime) \in (0 - MaxDebt)..MaxAcc
  /\ accumulator' = accumulator + NewFixed(deltaTime)
  /\ lastOp' = "update"
  /\ lastDt' = deltaTime
  /\ trace' = <<>>
  /\ outcome' = "skipped"
  /\ dispatch' = NoDispatch
  /\ UNCHANGED <<fixedTimeStep, world, physicsWorld, initPending, body,
                 bodyTick, priorTick, transform, nonNegDts, interp>>
  /\ UNCHANGED componentVars
  /\ UNCHANGED otherVars

\* PhysicsWorldSystem.update while physicsWorld is null: the early return
UpdateSkipped(deltaTime) ==
  /\ ~physicsWorld
  /\ lastOp' = "update"
  /\ lastDt' = deltaTime
  /\ trace' = <<>>
  /\ outcome' = "skipped"
  /\ dispatch' = NoDispatch
  /\ UNCHANGED <<fixedTimeStep, accumulator, world, physicsWorld, initPending, body,
                 bodyTick, priorTick, transform, nonNegDts, interp>>
  /\ UNCHANGED componentVars
  /\ UNCHANGED otherVars

\* the calls p's engine has received once it has received calls more: a system
\* constructed without the plugin has another engine, whose calls are not kept
EngineCalled(p, calls) ==
  IF p.phase = "constructed" THEN p ELSE [p EXCEPT !.calls = @ \o calls]

\* the calls onRemovedFromWorld makes: the physics world, if there is one, is
\* destroyed, then the engine
RemovedFromWorldCalls ==
  (IF physicsWorld THEN <<"destroyWorld">> ELSE <<>>) \o <<"destroy">>

\* PhysicsWorldSystem.onAddedToWorld up to `await this.engine.initialize()`
OnAddedToWorld ==
  /\ ~world
  /\ ~initPending
  /\ world' = TRUE
  /\ initPending' = TRUE
  /\ plugin' = EngineCalled(plugin, <<"initialize">>)
  /\ NotUpdate("onAddedToWorld")
  /\ UNCHANGED <<fixedTimeStep, accumulator, physicsWorld, body, bodyTick, priorTick,
                 transform, nonNegDts, interp>>
  /\ UNCHANGED componentVars
  /\ UNCHANGED <<view, mapped, jointActive, destroyed, leaked, jointDestroyedBy>>

\* PhysicsWorldSystem.onAddedToWorld resumed: the physics world is created
OnEngineInitialized ==
  /\ initPending
  /\ initPending' = FALSE
  /\ physicsWorld' = TRUE
  /\ plugin' = EngineCalled(plugin, <<"createWorld">>)
  /\ NotUpdate("onEngineInitialized")
  /\ UNCHANGED <<fixedTimeStep, accumulator, world, body, bodyTick, priorTick,
                 transform, nonNegDts, interp>>
  /\ UNCHANGED componentVars
  /\ UNCHANGED <<view, mapped, jointActive, destroyed, leaked, jointDestroyedBy>>

\* PhysicsWorldSystem.onRemovedFromWorld
OnRemovedFromWorld ==
  /\ world
  /\ physicsWorld' = FALSE
  /\ world' = FALSE
  /\ plugin' = EngineCalled(plugin, RemovedFromWorldCalls)
  /\ NotUpdate("onRemovedFromWorld")
  /\ UNCHANGED <<fixedTimeStep, accumulator, initPending, body, bodyTick, priorTick,
                 transform, nonNegDts, interp>>
  /\ UNCHANGED componentVars
  /\ UNCHANGED <<view, mapped, jointActive, destroyed, leaked, jointDestroyedBy>>

\* the engine pose that shows the position p
TickOf(p) == CHOOSE t \in 0..(PoseCount - 1) : GetPosition(t) = p

\* PhysicsBodySystem.onEntityAdded: the body is created at the transform's pose
OnEntityAdded(e) ==
  /\ physicsWorld
  /\ ~body[e]
  /\ body' = [body EXCEPT ![e] = TRUE]
  /\ bodyTick' = [bodyTick EXCEPT ![e] = TickOf(transform[e].position)]
  /\ priorTick' = [priorTick EXCEPT ![e] = TickOf(transform[e].position)]
  /\ NotUpdate("onEntityAdded")
  /\ UNCHANGED <<fixedTimeStep, accumulator, world, physicsWorld, initPending,
                 transform, nonNegDts, interp>>
  /\ UNCHANGED componentVars
  /\ UNCHANGED otherVars

\* PhysicsBodySystem.onEntityAdded for an entity whose component holds a body
\* already: the body created replaces it in the component; the replaced body is
\* not destroyed and keeps the entity as its user data
OnEntityAddedAgain(e) ==
  /\ physicsWorld
  /\ body[e]
  /\ leaked[e] < MaxLeaks
  /\ leaked' = [leaked EXCEPT ![e] = @ + 1]
  /\ destroyed' = [destroyed EXCEPT !["body"][e] = 0]
  /\ bodyTick' = [bodyTick EXCEPT ![e] = TickOf(transform[e].position)]
  /\ priorTick' = [priorTick EXCEPT ![e] = TickOf(transform[e].position)]
  /\ NotUpdate("onEntityAddedAgain")
  /\ UNCHANGED <<fixedTimeStep, accumulator, world, physicsWorld, initPending, body,
                 transform, nonNegDts, interp>>
  /\ UNCHANGED componentVars
  /\ UNCHANGED <<view, mapped, plugin, jointActive, jointDestroyedBy>>

\* a handle field its component holds, and the destroy() calls that handle received
Held(held, calls) == [held |-> held, destroyed |-> IF held THEN calls ELSE 0]

\* variant: the handle is destroyed and the field keeps it
ReleasedKeepsHandle(calls) == Held(TRUE, calls + 1)

\* `x.destroy(); x = null` on a handle that has received calls destroy() calls
Released(calls) == Held(FALSE, calls + 1)

\* the `if (comp?.x) { x.destroy(); x = null }` of the three onEntityRemoved
ReleasedIfHeld(held, calls) == IF held THEN Released(calls) ELSE Held(FALSE, 0)

\* PhysicsBodySystem.onEntityRemoved: the body, if the component holds one, is
\* destroyed and the handle cleared
OnEntityRemoved(e) ==
  /\ \E r \in {ReleasedIfHeld(body[e], destroyed["body"][e])} :
       /\ body' = [body EXCEPT ![e] = r.held]
       /\ destroyed' = [destroyed EXCEPT !["body"][e] = r.destroyed]
  /\ bodyTick' = [bodyTick EXCEPT ![e] = IF body[e] THEN 0 ELSE @]
  /\ priorTick' = [priorTick EXCEPT ![e] = IF body[e] THEN 0 ELSE @]
  /\ NotUpdate("onEntityRemoved")
  /\ UNCHANGED <<fixedTimeStep, accumulator, world, physicsWorld, initPending,
                 transform, nonNegDts, interp>>
  /\ UNCHANGED componentVars
  /\ UNCHANGED <<view, mapped, plugin, jointActive, leaked, jointDestroyedBy>>

\* PhysicsColliderSystem.onEntityAdded: the collider is created on e's body,
\* unless engine.createCollider raises
ColliderOnEntityAdded(e, fails) ==
  /\ body[e]
  /\ collider' = [collider EXCEPT ![e] = IF fails THEN @ ELSE TRUE]
  /\ NotUpdate("colliderOnEntityAdded")
  /\ UNCHANGED <<fixedTimeStep, accumulator, world, physicsWorld, initPending, body,
                 bodyTick, priorTick, transform, nonNegDts, interp>>
  /\ UNCHANGED <<joint, collisionComp, callbacks>>
  /\ UNCHANGED otherVars

\* PhysicsColliderSystem.onEntityRemoved
ColliderOnEntityRemoved(e) ==
  /\ \E r \in {ReleasedIfHeld(collider[e], destroyed["collider"][e])} :
       /\ collider' = [collider EXCEPT ![e] = r.held]
       /\ destroyed' = [destroyed EXCEPT !["collider"][e] = r.destroyed]
  /\ NotUpdate("colliderOnEntityRemoved")
  /\ UNCHANGED <<fixedTimeStep, accumulator, world, physicsWorld, initPending, body,
                 bodyTick, priorTick, transform, nonNegDts, interp>>
  /\ UNCHANGED <<joint, collisionComp, callbacks>>
  /\ UNCHANGED <<view, mapped, plugin, jointActive, leaked, jointDestroyedBy>>

\* the body of PhysicsJointSystem.onEntityAdded: the joint field it leaves.  It
\* returns early without a physics world and for an inactive component;
\* engine.createJoint raising is caught and leaves the field as it was
JointAdded(e, fails) ==
  IF ~physicsWorld THEN Held(joint[e], destroyed["joint"][e])
  ELSE IF ~jointActive[e] THEN Held(joint[e], destroyed["joint"][e])
  ELSE IF fails THEN Held(joint[e], destroyed["joint"][e])
  ELSE Held(TRUE, 0)

\* PhysicsJointSystem.onEntityAdded, the physics world existing
JointOnEntityAdded(e, fails) ==
  /\ physicsWorld
  /\ \E r \in {JointAdded(e, fails)} :
       /\ joint' = [joint EXCEPT ![e] = r.held]
       /\ destroyed' = [destroyed EXCEPT !["joint"][e] = r.destroyed]
  /\ NotUpdate("jointOnEntityAdded")
  /\ UNCHANGED <<fixedTimeStep, accumulator, world, physicsWorld, initPending, body,
                 bodyTick, priorTick, transform, nonNegDts, interp>>
  /\ UNCHANGED <<collider, collisionComp, callbacks>>
  /\ UNCHANGED <<view, mapped, plugin, jointActive, leaked, jointDestroyedBy>>

\* PhysicsJointSystem.onEntityRemoved
JointOnEntityRemoved(e) ==
  /\ \E r \in {ReleasedIfHeld(joint[e], destroyed["joint"][e])} :
       /\ joint' = [joint EXCEPT ![e] = r.held]
       /\ destroyed' = [destroyed EXCEPT !["joint"][e] = r.destroyed]
  /\ jointDestroyedBy' = [jointDestroyedBy EXCEPT ![e] =
                            IF joint[e] THEN "onEntityRemoved" ELSE @]
  /\ NotUpdate("jointOnEntityRemoved")
  /\ UNCHANGED <<fixedTimeStep, accumulator, world, physicsWorld, initPending, body,
                 bodyTick, priorTick, transform, nonNegDts, interp>>
  /\ UNCHANGED <<collider, collisionComp, callbacks>>
  /\ UNCHANGED <<view, mapped, plugin, jointActive, leaked>>

\* what joint.isActive() gives: true, false, or it raises
IsActiveReports == {"active", "inactive", "throws"}

\* the entities that have a JointComponent
JointOwners == Dynamic

\* variant: a missing joint is not created again
JointUpdatedNoRetry(e, fails, reports) ==
  IF joint[e]
  THEN IF reports # "throws" /\ ~jointActive[e] /\ reports = "active"
       THEN Released(destroyed["joint"][e])
       ELSE Held(TRUE, destroyed["joint"][e])
  ELSE Held(FALSE, 0)

\* one entity's pass through the loop of PhysicsJointSystem.update: the joint
\* field it leaves, isActive() giving reports and createJoint raising if fails
JointUpdated(e, fails, reports) ==
  IF joint[e]
  THEN IF reports # "throws" /\ ~jointActive[e] /\ reports = "active"
       THEN Released(destroyed["joint"][e])
       ELSE Held(TRUE, destroyed["joint"][e])
  ELSE IF jointActive[e] THEN JointAdded(e, fails)
  ELSE Held(FALSE, 0)

\* history of a joint update: what a call of the engine gives during it
\* (1: a joint, or true; 0: false; -1: it raises)
EngineGives(op, result) == [op |-> op, arg |-> result]

\* PhysicsJointSystem.update
JointUpdate(fails, reports) ==
  /\ \E r \in {[e \in Entities |->
                   IF e \in JointOwners THEN JointUpdated(e, fails, reports)
                   ELSE Held(joint[e], destroyed["joint"][e])]} :
       /\ joint' = [e \in Entities |-> r[e].held]
       /\ destroyed' = [destroyed EXCEPT !["joint"] = [e \in Entities |-> r[e].destroyed]]
       /\ jointDestroyedBy' = [e \in Entities |->
                                 IF joint[e] /\ ~r[e].held THEN "update"
                                 ELSE jointDestroyedBy[e]]
  /\ lastOp' = "jointUpdate"
  /\ lastDt' = 0
  /\ trace' = <<EngineGives("createJoint", IF fails THEN 0 - 1 ELSE 1),
                EngineGives("isActive", IF reports = "active" THEN 1
                                        ELSE IF reports = "inactive" THEN 0 ELSE 0 - 1)>>
  /\ outcome' = "none"
  /\ dispatch' = NoDispatch
  /\ UNCHANGED <<fixedTimeStep, accumulator, world, physicsWorld, initPending, body,
                 bodyTick, priorTick, transform, nonNegDts, interp>>
  /\ UNCHANGED <<collider, collisionComp, callbacks>>
  /\ UNCHANGED <<view, mapped, plugin, jointActive, leaked>>

\* a program sets JointComponent.active of e
SetJointActive(e, active) ==
  /\ jointActive' = [jointActive EXCEPT ![e] = active]
  /\ NotUpdate("setJointActive")
  /\ UNCHANGED <<fixedTimeStep, accumulator, world, physicsWorld, initPending, body,
                 bodyTick, priorTick, transform, nonNegDts, interp>>
  /\ UNCHANGED componentVars
  /\ UNCHANGED <<view, mapped, plugin, destroyed, leaked, jointDestroyedBy>>

\* ------------------------------------------------- CollisionEventComponent
\* a program gives e a CollisionEventComponent, its lists empty
AddCollisionEventComponent(e) ==
  /\ ~collisionComp[e]
  /\ collisionComp' = [collisionComp EXCEPT ![e] = TRUE]
  /\ callbacks' = [callbacks EXCEPT ![e] = NoCallbacks]
  /\ NotUpdate("addCollisionEventComponent")
  /\ UNCHANGED <<fixedTimeStep, accumulator, world, physicsWorld, initPending, body,
                 bodyTick, priorTick, transform, nonNegDts, interp>>
  /\ UNCHANGED <<collider, joint>>
  /\ UNCHANGED otherVars

\* the lists of a CollisionEventComponent
Lists == {"onCollisionBegin", "onCollisionEnd", "onSensorBegin", "onSensorEnd"}

\* variant: the callback is put at the head of the list
PushFront(list, callback) == <<callback>> \o list

\* Array.push
Push(list, callback) == Append(list, callback)

\* the callbacks on the four lists of one component
ListTotal(c) ==
  Len(c.onCollisionBegin) + Len(c.onCollisionEnd) + Len(c.onSensorBegin) + Len(c.onSensorEnd)

RECURSIVE SumLen(_, _)
SumLen(lists, S) ==
  IF S = {} THEN 0
  ELSE LET e == CHOOSE e \in S : TRUE
       IN ListTotal(lists[e]) + SumLen(lists, S \ {e})

\* the callbacks registered over all the lists
Registered(lists) == SumLen(lists, Entities)

\* the lists after callback is pushed on the list named list of e's component
Register(lists, e, list, callback) ==
  [lists EXCEPT ![e][list] = Push(@, callback)]

\* one of the four add...Callback methods, called by a program
AddCallback(e, list, callback) ==
  /\ collisionComp[e]
  /\ Registered(callbacks) < MaxCallbacks
  /\ callbacks' = Register(callbacks, e, list, callback)
  /\ NotUpdate(list)
  /\ UNCHANGED <<fixedTimeStep, accumulator, world, physicsWorld, initPending, body,
                 bodyTick, priorTick, transform, nonNegDts, interp>>
  /\ UNCHANGED <<collider, joint, collisionComp>>
  /\ UNCHANGED otherVars

\* CollisionEventComponent.addCollisionBeginCallback
AddCollisionBeginCallback(e, callback) == AddCallback(e, "onCollisionBegin", callback)

\* CollisionEventComponent.addCollisionEndCallback
AddCollisionEndCallback(e, callback) == AddCallback(e, "onCollisionEnd", callback)

\* CollisionEventComponent.addSensorBeginCallback
AddSensorBeginCallback(e, callback) == AddCallback(e, "onSensorBegin", callback)

\* CollisionEventComponent.addSensorEndCallback
AddSensorEndCallback(e, callback) == AddCallback(e, "onSensorEnd", callback)

\* -------------------------------------------- PhysicsWorldSystem, collisions
NoEntity == "none"

\* what body.getUserData() does on the body of a notification
UserData(b) ==
  [throws |-> b = "throws",
   truthy |-> b \notin {"null", "throws"},
   object |-> b \in Entities \cup {"noId"},
   hasId  |-> b \in Entities]

\* PhysicsWorldSystem.getEntityFromBody
GetEntityFromBody(b) ==
  LET userData == UserData(b)
  IN IF userData.throws THEN NoEntity
     ELSE IF userData.truthy /\ userData.object /\ userData.hasId THEN b
     ELSE NoEntity

\* variant: one resolved body is enough
BothResolvedEither(entityA, entityB) == entityA # NoEntity \/ entityB # NoEntity

\* the test `entityA && entityB` of handleCollisionEvent
BothResolved(entityA, entityB) == entityA # NoEntity /\ entityB # NoEntity

\* entity.getComponent(CollisionEventComponent) gives a component
HasComponent(entity) == entity \in Entities /\ collisionComp[entity]

\* variant: whatever is not a begin is an end
ListForElseEnd(data) ==
  IF data.isBeginContact THEN "onCollisionBegin" ELSE "onCollisionEnd"

\* the list handleEntityCollision goes through for a notification
ListFor(data) ==
  IF data.isBeginContact THEN "onCollisionBegin"
  ELSE IF data.isEndContact THEN "onCollisionEnd"
  ELSE "none"

\* variant: the callback is handed the entity it is registered on
CallbackArgumentOwner(owner, other) == owner

\* the argument handleEntityCollision passes to a callback of owner
CallbackArgument(owner, other) == other

\* the lists after callback, registered on list of owner, ran with argument arg,
\* and whether it raised
CallCallback(lists, callback, owner, arg, list) ==
  [callbacks |->
     IF callback = "adderSelf" THEN Register(lists, owner, list, Late)
     ELSE IF callback = "adderOther" /\ HasComponent(arg) THEN Register(lists, arg, list, Late)
     ELSE lists,
   threw |-> callback = "thrower"]

Invocation(owner, list, callback, arg, threw) ==
  [owner |-> owner, list |-> list, callback |-> callback, arg |-> arg, threw |-> threw]

\* variant: a callback that raises ends the forEach
RECURSIVE ForEachUnguarded(_, _, _, _, _, _, _)
ForEachUnguarded(lists, log, owner, other, list, i, n) ==
  IF i > n THEN [callbacks |-> lists, invoked |-> log]
  ELSE LET callback == lists[owner][list][i]
           arg == CallbackArgument(owner, other)
           call == CallCallback(lists, callback, owner, arg, list)
           made == Append(log, Invocation(owner, list, callback, arg, call.threw))
       IN IF call.threw THEN [callbacks |-> call.callbacks, invoked |-> made]
          ELSE ForEachUnguarded(call.callbacks, made, owner, other, list, i + 1, n)

\* list.forEach(callback => { try { callback(other) } catch { warn } }) from
\* element i on: Array.prototype.forEach visits the n elements the list had when
\* it started, each as it is when its turn comes
RECURSIVE ForEach(_, _, _, _, _, _, _)
ForEach(lists, log, owner, other, list, i, n) ==
  IF i > n THEN [callbacks |-> lists, invoked |-> log]
  ELSE LET callback == lists[owner][list][i]
           arg == CallbackArgument(owner, other)
           call == CallCallback(lists, callback, owner, arg, list)
           made == Append(log, Invocation(owner, list, callback, arg, call.threw))
       IN ForEach(call.callbacks, made, owner, other, list, i + 1, n)

\* one half of handleEntityCollision: the callbacks of owner
DispatchTo(lists, log, owner, other, data) ==
  IF HasComponent(owner) /\ ListFor(data) # "none"
  THEN ForEach(lists, log, owner, other, ListFor(data), 1, Len(lists[owner][ListFor(data)]))
  ELSE [callbacks |-> lists, invoked |-> log]

\* PhysicsWorldSystem.handleEntityCollision: entity A's callbacks, then entity B's
HandleEntityCollision(entityA, entityB, data) ==
  LET a == DispatchTo(callbacks, <<>>, entityA, entityB, data)
  IN DispatchTo(a.callbacks, a.invoked, entityB, entityA, data)

\* the body of handleCollisionEvent: the lists it leaves, the callbacks it invoked
\* in order, the events it published on the world's event bus and whether an
\* exception left it
RunHandleCollisionEvent(data) ==
  LET entityA == GetEntityFromBody(data.bodyA)
      entityB == GetEntityFromBody(data.bodyB)
      r == IF world /\ BothResolved(entityA, entityB)
           THEN HandleEntityCollision(entityA, entityB, data)
           ELSE [callbacks |-> callbacks, invoked |-> <<>>]
  IN [data |-> data, callbacks |-> r.callbacks, invoked |-> r.invoked,
      emitted |-> <<>>, raised |-> FALSE]

\* the engine delivers a notification to the handler onAddedToWorld registered
HandleCollisionEvent(data) ==
  /\ physicsWorld
  /\ \E r \in {RunHandleCollisionEvent(data)} :
       /\ Registered(r.callbacks) <= MaxCallbacks
       /\ callbacks' = r.callbacks
       /\ dispatch' = [data |-> r.data, invoked |-> r.invoked,
                       emitted |-> r.emitted, raised |-> r.raised]
  /\ lastOp' = "handleCollisionEvent"
  /\ lastDt' = 0
  /\ trace' = <<>>
  /\ outcome' = "none"
  /\ UNCHANGED <<fixedTimeStep, accumulator, world, physicsWorld, initPending, body,
                 bodyTick, priorTick, transform, nonNegDts, interp>>
  /\ UNCHANGED <<collider, joint, collisionComp>>
  /\ UNCHANGED otherVars

\* a caller queries getInterpolatedPosition and getInterpolatedRotation of e
Interpolate(e, alpha) ==
  /\ interp' = [entity |-> e, alpha |-> alpha,
                position |-> GetInterpolatedPosition(transform[e], alpha),
                rotation |-> GetInterpolatedRotation(transform[e], alpha)]
  /\ NotUpdate("interpolate")
  /\ UNCHANGED <<fixedTimeStep, accumulator, world, physicsWorld, initPending, body,
                 bodyTick, priorTick, transform, nonNegDts>>
  /\ UNCHANGED componentVars
  /\ UNCHANGED otherVars

\* ------------------------------------------------ BasePhysicsDebugRenderer
\* Fixed.divide for a divisor other than zero: the quotient rescaled and rounded
\* to a resolution unit
FixedDivide(a, b) ==
  IF b > 0 THEN (2 * a * FixedScale + b) \div (2 * b)
  ELSE (2 * (0 - a) * FixedScale + (0 - b)) \div (2 * (0 - b))

\* the rotations the model uses: none, a quarter turn, a half turn, an eighth
\* turn, as raw Fixed angles
QuarterTurn == (3 * FixedScale) \div 2
HalfTurn == 3 * FixedScale
EighthTurn == (3 * FixedScale) \div 4

\* Fixed.cos and Fixed.sin at those rotations, rounded to a resolution unit:
\* exact at the quarter and the half turn, rounded at the eighth turn
Cos(r) ==
  CASE r = 0 -> FixedScale
    [] r = QuarterTurn -> 0
    [] r = HalfTurn -> 0 - FixedScale
    [] r = EighthTurn -> (3 * FixedScale) \div 4

Sin(r) ==
  CASE r = 0 -> 0
    [] r = QuarterTurn -> FixedScale
    [] r = HalfTurn -> 0
    [] r = EighthTurn -> (3 * FixedScale) \div 4

\* FixedVector2.subtract, add, multiply and divide by a Fixed
VSubtract(a, b) == <<a[1] - b[1], a[2] - b[2]>>
VAdd(a, b) == <<a[1] + b[1], a[2] + b[2]>>
VMultiply(a, k) == <<FixedMultiply(a[1], k), FixedMultiply(a[2], k)>>
VDivide(a, k) == <<FixedDivide(a[1], k), FixedDivide(a[2], k)>>

\* variant: the rotation is applied the other way round
RotateTransposed(v, cos, sin) ==
  <<FixedMultiply(v[1], cos) + FixedMultiply(v[2], sin),
    FixedMultiply(v[2], cos) - FixedMultiply(v[1], sin)>>

\* the rotation block of worldToScreen
Rotate(v, cos, sin) ==
  <<FixedMultiply(v[1], cos) - FixedMultiply(v[2], sin),
    FixedMultiply(v[1], sin) + FixedMultiply(v[2], cos)>>

\* variant: the point is turned the same way as worldToScreen turns it
UnrotateSameWay(v, cos, sin) ==
  <<FixedMultiply(v[1], cos) - FixedMultiply(v[2], sin),
    FixedMultiply(v[1], sin) + FixedMultiply(v[2], cos)>>

\* the rotation block of screenToWorld
Unrotate(v, cos, sin) ==
  <<FixedMultiply(v[1], cos) + FixedMultiply(v[2], sin),
    FixedMultiply(v[2], cos) - FixedMultiply(v[1], sin)>>

\* worldToScreen under the view transform v
WorldToScreen(v, worldPos) ==
  LET relativePos == VSubtract(worldPos, v.position)
      scaledPos == VMultiply(relativePos, v.zoom)
  IN IF v.rotation # 0
     THEN Rotate(scaledPos, Cos(v.rotation), Sin(v.rotation))
     ELSE scaledPos

\* screenToWorld under the view transform v
ScreenToWorld(v, screenPos) ==
  LET worldPos == IF v.rotation # 0
                  THEN Unrotate(screenPos, Cos(v.rotation), Sin(v.rotation))
                  ELSE screenPos
      unscaledPos == VDivide(worldPos, v.zoom)
  IN VAdd(unscaledPos, v.position)

\* variant: the zoom is left as it was
AssignedViewKeepsZoom(position, rotation, zoom) ==
  [position |-> position, rotation |-> rotation, zoom |-> view.zoom]

\* the three fields as setViewTransform assigns them
AssignedView(position, rotation, zoom) ==
  [position |-> position, rotation |-> rotation, zoom |-> zoom]

\* BasePhysicsDebugRenderer.setViewTransform
SetViewTransform(position, rotation, zoom) ==
  /\ view' = AssignedView(position, rotation, zoom)
  /\ mapped' = [NoMapped EXCEPT !.lastSet =
                  [position |-> position, rotation |-> rotation, zoom |-> zoom]]
  /\ NotUpdate("setViewTransform")
  /\ UNCHANGED <<fixedTimeStep, accumulator, world, physicsWorld, initPending, body,
                 bodyTick, priorTick, transform, nonNegDts, interp>>
  /\ UNCHANGED componentVars
  /\ UNCHANGED <<plugin, jointActive, destroyed, leaked, jointDestroyedBy>>

\* BasePhysicsDebugRenderer.resetViewTransform
ResetViewTransform ==
  /\ view' = IdentityView
  /\ mapped' = NoMapped
  /\ NotUpdate("resetViewTransform")
  /\ UNCHANGED <<fixedTimeStep, accumulator, world, physicsWorld, initPending, body,
                 bodyTick, priorTick, transform, nonNegDts, interp>>
  /\ UNCHANGED componentVars
  /\ UNCHANGED <<plugin, jointActive, destroyed, leaked, jointDestroyedBy>>

\* a caller maps the point p with worldToScreen and with screenToWorld, and maps
\* each result back with the other
MapPoint(p) ==
  /\ mapped' = [lastSet |-> mapped.lastSet,
                point |-> p,
                toScreen |-> WorldToScreen(view, p),
                toWorld |-> ScreenToWorld(view, p),
                thereAndBack |-> ScreenToWorld(view, WorldToScreen(view, p)),
                backAndThere |-> WorldToScreen(view, ScreenToWorld(view, p))]
  /\ NotUpdate("mapPoint")
  /\ UNCHANGED <<fixedTimeStep, accumulator, world, physicsWorld, initPending, body,
                 bodyTick, priorTick, transform, nonNegDts, interp>>
  /\ UNCHANGED componentVars
  /\ UNCHANGED <<view, plugin, jointActive, destroyed, leaked, jointDestroyedBy>>

\* ------------------------------------------------------- BasePhysicsPlugin
\* the fixedTimeStep of the plugin's config, as a number on the fine grid
PluginFts == SyncFts

\* BasePhysicsPlugin.install up to `await this.engine.initialize()`
Install ==
  /\ plugin.phase = "constructed"
  /\ plugin' = [plugin EXCEPT !.phase = "initializing", !.calls = <<"initialize">>]
  /\ NotUpdate("install")
  /\ UNCHANGED <<fixedTimeStep, accumulator, world, physicsWorld, initPending, body,
                 bodyTick, priorTick, transform, nonNegDts, interp>>
  /\ UNCHANGED componentVars
  /\ UNCHANGED <<view, mapped, jointActive, destroyed, leaked, jointDestroyedBy>>

\* BasePhysicsPlugin.install resumed: with autoCreateSystems, createPhysicsSystems
\* constructs the world system from the engine, the world config and the
\* config's fixedTimeStep and adds it to the world, whose call of onAddedToWorld
\* runs up to its await; the three component systems are added after it
InstallResumed ==
  /\ plugin.phase = "initializing"
  /\ IF plugin.autoCreateSystems
     THEN /\ fixedTimeStep' = NewFixed(PluginFts)
          /\ accumulator' = 0
          /\ world' = TRUE
          /\ initPending' = TRUE
          /\ plugin' = [plugin EXCEPT !.phase = "installed",
                                      !.calls = @ \o <<"initialize">>]
     ELSE /\ plugin' = [plugin EXCEPT !.phase = "installed"]
          /\ UNCHANGED <<fixedTimeStep, accumulator, world, initPending>>
  /\ NotUpdate("installResumed")
  /\ UNCHANGED <<physicsWorld, body, bodyTick, priorTick, transform, nonNegDts, interp>>
  /\ UNCHANGED componentVars
  /\ UNCHANGED <<view, mapped, jointActive, destroyed, leaked, jointDestroyedBy>>

\* BasePhysicsPlugin.uninstall: the systems are removed from the world, whose
\* call of the world system's onRemovedFromWorld destroys the physics world and
\* the engine; then the plugin destroys its engine
Uninstall ==
  /\ plugin.phase = "installed"
  /\ IF plugin.autoCreateSystems
     THEN /\ physicsWorld' = FALSE
          /\ world' = FALSE
          /\ plugin' = [plugin EXCEPT !.phase = "uninstalled",
                                      !.calls = @ \o RemovedFromWorldCalls \o <<"destroy">>]
     ELSE /\ plugin' = [plugin EXCEPT !.phase = "uninstalled",
                                      !.calls = @ \o <<"destroy">>]
          /\ UNCHANGED <<physicsWorld, world>>
  /\ NotUpdate("uninstall")
  /\ UNCHANGED <<fixedTimeStep, accumulator, initPending, body, bodyTick, priorTick,
                 transform, nonNegDts, interp>>
  /\ UNCHANGED componentVars
  /\ UNCHANGED <<view, mapped, jointActive, destroyed, leaked, jointDestroyedBy>>

\* ------------------------------------------------------- specifications
\* Time stepping: the system through its life, fed any deltaTime, with any step
\* of the engine failing.
Next ==
  \/ \E dt \in DtInputs, failAt \in FailAts : Update(dt, failAt, FALSE)
  \/ \E dt \in DtInputs : UpdateSkipped(dt)
  \/ OnAddedToWorld
  \/ OnEngineInitialized
  \/ OnRemovedFromWorld

Spec == Init /\ [][Next]_vars

\* Transform refresh: entities gain and lose their bodies between the updates of
\* a system that stays in its world.
InitSync == Constructed(SyncFts)

NextSync ==
  \/ \E dt \in SyncDtInputs, failAt \in SyncFailAts, half \in BOOLEAN : Update(dt, failAt, half)
  \/ OnAddedToWorld
  \/ OnEngineInitialized
  \/ \E e \in Entities : OnEntityAdded(e)
  \/ \E e \in Entities : OnEntityRemoved(e)

SpecSync == InitSync /\ [][NextSync]_vars

\* Interpolation: the queries on every transform a refresh can leave behind.
Transforms ==
  {[position |-> GetPosition(a), rotation |-> GetRotation(a),
    scale |-> <<FixedScale, FixedScale>>,
    previousPosition |-> GetPosition(b), previousRotation |-> GetRotation(b)] :
     a \in 0..(PoseCount - 1), b \in 0..(PoseCount - 1)}

InitLerp ==
  /\ fixedTimeStep = NewFixed(SyncFts)
  /\ accumulator = 0
  /\ world = TRUE
  /\ physicsWorld = TRUE
  /\ initPending = FALSE
  /\ body = [e \in Entities |-> TRUE]
  /\ bodyTick = [e \in Entities |-> 0]
  /\ priorTick = [e \in Entities |-> 0]
  /\ transform \in [Entities -> Transforms]
  /\ lastOp = "init"
  /\ lastDt = 0
  /\ trace = <<>>
  /\ outcome = "none"
  /\ nonNegDts = TRUE
  /\ interp = NoInterp
  /\ collider = [e \in Entities |-> FALSE]
  /\ joint = [e \in Entities |-> FALSE]
  /\ collisionComp = [e \in Entities |-> FALSE]
  /\ callbacks = [e \in Entities |-> NoCallbacks]
  /\ dispatch = NoDispatch
  /\ OthersConstructed

NextLerp == \E e \in Entities, alpha \in AlphaInputs : Interpolate(e, alpha)

SpecLerp == InitLerp /\ [][NextLerp]_vars

\* Frame of the refresh: entities gain bodies, colliders, joints and callbacks
\* between the updates of a system that stays in its world.
FrameDtInputs == {0, 4, SyncFts}

NextFrame ==
  \/ \E dt \in FrameDtInputs : Update(dt, 0, FALSE)
  \/ OnAddedToWorld
  \/ OnEngineInitialized
  \/ \E e \in Entities : OnEntityAdded(e)
  \/ \E e \in Entities, fails \in BOOLEAN : ColliderOnEntityAdded(e, fails)
  \/ \E e \in Dynamic, fails \in BOOLEAN : JointOnEntityAdded(e, fails)
  \/ \E e \in Dynamic : AddCollisionEventComponent(e)
  \/ \E e \in Dynamic : AddCollisionBeginCallback(e, "rec")

SpecFrame == InitSync /\ [][NextFrame]_vars

\* Collision dispatch: programs give entities callbacks while the engine of an
\* initialised system delivers notifications.
\* the notifications the engine delivers; sensor: the contact is with a sensor
Data(bodyA, bodyB, isBeginContact, isEndContact, sensor) ==
  [bodyA |-> bodyA, bodyB |-> bodyB, isBeginContact |-> isBeginContact,
   isEndContact |-> isEndContact, sensor |-> sensor]

\* two distinct entities, in either order
Pairs == {p \in Entities \X Entities : p[1] # p[2]}

\* notifications of two bodies that carry their entities, with every setting of
\* the two flags
ResolvedNotifications ==
  {Data(p[1], p[2], isBegin, isEnd, FALSE) :
     p \in Pairs, isBegin \in BOOLEAN, isEnd \in BOOLEAN}

\* begin and end of a contact with a sensor collider
SensorNotifications ==
  {Data(p[1], p[2], isBegin, ~isBegin, TRUE) : p \in Pairs, isBegin \in BOOLEAN}

\* notifications of a body that does not carry an entity, on either side
UnresolvedNotifications ==
  {Data(u, "e2", TRUE, FALSE, FALSE) : u \in {"null", "noId"}}
    \cup {Data("e1", u, TRUE, FALSE, FALSE) : u \in {"nonObject", "throws"}}
    \cup {Data("throws", "null", FALSE, TRUE, FALSE)}

Notifications ==
  ResolvedNotifications \cup SensorNotifications \cup UnresolvedNotifications

\* the callbacks put on the end lists, and the entities given sensor callbacks
EndCallbacks == {"rec", "thrower"}
SensorOwners == {"e1"}

InitDispatch ==
  /\ fixedTimeStep = NewFixed(SyncFts)
  /\ accumulator = 0
  /\ world = TRUE
  /\ physicsWorld = TRUE
  /\ initPending = FALSE
  /\ body = [e \in Entities |-> TRUE]
  /\ bodyTick = [e \in Entities |-> 0]
  /\ priorTick = [e \in Entities |-> 0]
  /\ transform = [e \in Entities |-> NewTransform(GetPosition(0), GetRotation(0), ScaleOf(e))]
  /\ lastOp = "init"
  /\ lastDt = 0
  /\ trace = <<>>
  /\ outcome = "none"
  /\ nonNegDts = TRUE
  /\ interp = NoInterp
  /\ collider = [e \in Entities |-> FALSE]
  /\ joint = [e \in Entities |-> FALSE]
  /\ collisionComp = [e \in Entities |-> FALSE]
  /\ callbacks = [e \in Entities |-> NoCallbacks]
  /\ dispatch = NoDispatch
  /\ OthersConstructed

NextDispatch ==
  \/ \E e \in Entities : AddCollisionEventComponent(e)
  \/ \E e \in Entities, c \in Callbacks : AddCollisionBeginCallback(e, c)
  \/ \E e \in Entities, c \in EndCallbacks : AddCollisionEndCallback(e, c)
  \/ \E e \in SensorOwners : AddSensorBeginCallback(e, "rec")
  \/ \E e \in SensorOwners : AddSensorEndCallback(e, "rec")
  \/ \E d \in Notifications : HandleCollisionEvent(d)

SpecDispatch == InitDispatch /\ [][NextDispatch]_vars

\* Catch-up: a system whose accumulator holds a backlog is updated frame after
\* frame with frames no longer than maxSubSteps - 1 steps, no step failing.
CatchUpFts == {0, 6, 12}
CatchUpDtInputs == {0, 7, 12, 54, 108}

InitCatchUp ==
  /\ fixedTimeStep \in {NewFixed(n) : n \in CatchUpFts}
  /\ accumulator \in 0..MaxAcc
  /\ world = TRUE
  /\ physicsWorld = TRUE
  /\ initPending = FALSE
  /\ body = [e \in Entities |-> FALSE]
  /\ bodyTick = [e \in Entities |-> 0]
  /\ priorTick = [e \in Entities |-> 0]
  /\ transform = [e \in Entities |-> NewTransform(GetPosition(0), GetRotation(0), ScaleOf(e))]
  /\ lastOp = "init"
  /\ lastDt = 0
  /\ trace = <<>>
  /\ outcome = "none"
  /\ nonNegDts = TRUE
  /\ interp = NoInterp
  /\ collider = [e \in Entities |-> FALSE]
  /\ joint = [e \in Entities |-> FALSE]
  /\ collisionComp = [e \in Entities |-> FALSE]
  /\ callbacks = [e \in Entities |-> NoCallbacks]
  /\ dispatch = NoDispatch
  /\ OthersConstructed

NextCatchUp ==
  \E dt \in CatchUpDtInputs :
    /\ dt <= (maxSubSteps - 1) * ToNumber(fixedTimeStep)
    /\ Update(dt, 0, FALSE)

\* the world this system is in updates it every frame
SpecCatchUp == InitCatchUp /\ [][NextCatchUp]_vars /\ WF_vars(NextCatchUp)

\* View transform: a renderer's view is set and reset between mapping queries.
\* The zooms are other than zero: with a zero zoom screenToWorld divides by zero.
ViewPositions == {<<0, 0>>, <<1, 0 - 2>>, <<FixedScale, 3>>}
ViewRotations == {0, QuarterTurn, HalfTurn, EighthTurn}
ViewZooms == {FixedScale, 2 * FixedScale, FixedScale \div 2, 0 - FixedScale}
Points == {<<x, y>> : x \in {0 - 3, 1, FixedScale}, y \in {0 - 2, 0, 2 * FixedScale}}

NextView ==
  \/ \E position \in ViewPositions, rotation \in ViewRotations, zoom \in ViewZooms :
       SetViewTransform(position, rotation, zoom)
  \/ ResetViewTransform
  \/ \E p \in Points : MapPoint(p)

SpecView == InitSync /\ [][NextView]_vars

\* Plugin: a plugin is installed in a world, which updates the world system the
\* plugin created, and uninstalled.
PluginMaxSubSteps == {5, maxSubSteps}
PluginDtInputs == {0, 7, SyncFts, 136}

InitPlugin ==
  /\ fixedTimeStep = NewFixed(PluginFts)
  /\ accumulator = 0
  /\ world = FALSE
  /\ physicsWorld = FALSE
  /\ initPending = FALSE
  /\ body = [e \in Entities |-> FALSE]
  /\ bodyTick = [e \in Entities |-> 0]
  /\ priorTick = [e \in Entities |-> 0]
  /\ transform = [e \in Entities |-> NewTransform(GetPosition(0), GetRotation(0), ScaleOf(e))]
  /\ lastOp = "init"
  /\ lastDt = 0
  /\ trace = <<>>
  /\ outcome = "none"
  /\ nonNegDts = TRUE
  /\ interp = NoInterp
  /\ collider = [e \in Entities |-> FALSE]
  /\ joint = [e \in Entities |-> FALSE]
  /\ collisionComp = [e \in Entities |-> FALSE]
  /\ callbacks = [e \in Entities |-> NoCallbacks]
  /\ dispatch = NoDispatch
  /\ view = IdentityView
  /\ mapped = NoMapped
  /\ plugin \in {NewPlugin(m, a) : m \in PluginMaxSubSteps, a \in BOOLEAN}
  /\ jointActive = [e \in Entities |-> TRUE]
  /\ destroyed = [k \in Kinds |-> [e \in Entities |-> 0]]
  /\ leaked = [e \in Entities |-> 0]
  /\ jointDestroyedBy = [e \in Entities |-> "none"]

NextPlugin ==
  \/ Install
  \/ InstallResumed
  \/ OnEngineInitialized
  \/ \E dt \in PluginDtInputs : world /\ Update(dt, 0, FALSE)
  \/ \E dt \in PluginDtInputs : world /\ UpdateSkipped(dt)
  \/ Uninstall

SpecPlugin == InitPlugin /\ [][NextPlugin]_vars

\* Handles: entities enter and leave the three component systems, programs
\* switch joints on and off, and the joint system is updated, in a world system
\* that is added to its world and initialised.
NextHandles ==
  \/ OnAddedToWorld
  \/ OnEngineInitialized
  \/ \E e \in Entities : OnEntityAdded(e)
  \/ \E e \in Dynamic : OnEntityAddedAgain(e)
  \/ \E e \in Entities : OnEntityRemoved(e)
  \/ \E e \in Dynamic, fails \in BOOLEAN : ColliderOnEntityAdded(e, fails)
  \/ \E e \in Dynamic : ColliderOnEntityRemoved(e)
  \/ \E e \in JointOwners, fails \in BOOLEAN : JointOnEntityAdded(e, fails)
  \/ \E e \in JointOwners : JointOnEntityRemoved(e)
  \/ \E fails \in BOOLEAN, reports \in IsActiveReports : JointUpdate(fails, reports)
  \/ \E e \in JointOwners, active \in BOOLEAN : SetJointActive(e, active)

SpecHandles == InitSync /\ [][NextHandles]_vars

\* ================================================================ claims
Returned == lastOp = "update" /\ outcome = "returned"
Threw == lastOp = "update" /\ outcome = "threw"

\* the whole multiples of d contained in n, for d > 0
Whole(n, d) == n \div d

Min(a, b) == IF a < b THEN a ELSE b

\* C1: every call of physicsWorld.step made by any update receives exactly the
\* configured fixedTimeStep, never deltaTime, the accumulator or another value.
C1_StepsByFixedTimeStep ==
  \A i \in DOMAIN trace : trace[i].op = "step" => trace[i].arg = fixedTimeStep

\* an update that stepped several times while neither deltaTime nor the
\* accumulator it left equals fixedTimeStep
C1_Witness ==
  /\ Returned
  /\ StepCalls(trace) >= 2
  /\ NewFixed(lastDt) # fixedTimeStep
  /\ accumulator # fixedTimeStep

\* C2 as stated: an update that returns leaves accumulator + dt - k*fixedTimeStep,
\* dt being the deltaTime passed in and k <= maxSubSteps the steps it made.
C2_Original ==
  [][(Returned)' =>
       /\ ToNumber(accumulator') =
            ToNumber(accumulator) + lastDt' - StepCalls(trace') * ToNumber(fixedTimeStep)
       /\ StepCalls(trace') <= maxSubSteps]_vars

\* C2 amended: an update that returns leaves accumulator + Fixed(dt) - k*fixedTimeStep,
\* Fixed(dt) being deltaTime rounded to the resolution of Fixed and k <= maxSubSteps
\* the steps it made: what is conserved is the sum of the rounded deltaTimes.
C2_Amended ==
  [][(Returned)' =>
       /\ accumulator' = accumulator + NewFixed(lastDt') - StepCalls(trace') * fixedTimeStep
       /\ StepCalls(trace') <= maxSubSteps]_vars

\* an update that hit the cap, fed a deltaTime that Fixed cannot hold
C2_Witness ==
  /\ Returned
  /\ StepCalls(trace) = maxSubSteps
  /\ accumulator > 0
  /\ ToNumber(NewFixed(lastDt)) # lastDt

\* C3 as stated: with fixedTimeStep > 0, an update makes k = min(maxSubSteps, whole
\* fixedTimeSteps contained in accumulator_before + dt) steps, dt being the
\* deltaTime passed in.
C3_Original ==
  [][((Returned)' /\ fixedTimeStep > 0 /\ accumulator >= 0 /\ lastDt' >= 0) =>
       StepCalls(trace') =
         Min(maxSubSteps, Whole(ToNumber(accumulator) + lastDt', ToNumber(fixedTimeStep)))]_vars

\* C3 amended: with fixedTimeStep > 0, an update makes k = min(maxSubSteps, whole
\* fixedTimeSteps contained in accumulator_before + Fixed(dt)) steps and leaves
\* accumulator_before + Fixed(dt) - k*fixedTimeStep; from accumulator 0 a deltaTime
\* of at least maxSubSteps steps gives exactly maxSubSteps steps.
C3_Amended ==
  [][((Returned)' /\ fixedTimeStep > 0 /\ accumulator >= 0 /\ lastDt' >= 0) =>
       LET total == accumulator + NewFixed(lastDt')
           k == Min(maxSubSteps, Whole(total, fixedTimeStep))
       IN /\ StepCalls(trace') = k
          /\ accumulator' = total - k * fixedTimeStep
          /\ (accumulator = 0 /\ total >= maxSubSteps * fixedTimeStep)
               => StepCalls(trace') = maxSubSteps]_vars

\* the scenario of the claim: a long frame capped at maxSubSteps steps, the rest kept
C3_Witness ==
  /\ Returned
  /\ fixedTimeStep > 0
  /\ StepCalls(trace) = maxSubSteps
  /\ accumulator = NewFixed(lastDt) - maxSubSteps * fixedTimeStep
  /\ accumulator > fixedTimeStep

\* C4: with fixedTimeStep > 0 and every deltaTime >= 0, the accumulator is never
\* negative, and after an update that returned it is below fixedTimeStep unless
\* that update made exactly maxSubSteps steps.
C4_AccumulatorRange ==
  (fixedTimeStep > 0 /\ nonNegDts) =>
    /\ accumulator >= 0
    /\ Returned => (accumulator < fixedTimeStep \/ StepCalls(trace) = maxSubSteps)

\* the cap was hit and left more than a step in the accumulator
C4_Witness ==
  /\ Returned
  /\ fixedTimeStep > 0
  /\ nonNegDts
  /\ accumulator >= fixedTimeStep
  /\ StepCalls(trace) = maxSubSteps

\* C5: no update makes more than maxSubSteps step calls, whatever deltaTime and
\* fixedTimeStep are (zero and negative steps included).
C5_BoundedSteps == StepCalls(trace) <= maxSubSteps /\ Len(trace) <= maxSubSteps + 1

\* an update stopped by the cap alone: the accumulator test is still true
C5_Witness ==
  /\ Returned
  /\ fixedTimeStep <= 0
  /\ StepCalls(trace) = maxSubSteps
  /\ accumulator >= fixedTimeStep

\* C6: when a step raises, update ends there: the failing step is the last call,
\* no refresh is made, no transform changes, and the accumulator holds
\* deltaTime added and only the completed steps subtracted.
C6_StepFault ==
  [][(Threw)' =>
       /\ trace'[Len(trace')].op = "step"
       /\ \A i \in DOMAIN trace' : trace'[i].op # "refresh"
       /\ accumulator' =
            accumulator + NewFixed(lastDt') - (StepCalls(trace') - 1) * fixedTimeStep
       /\ transform' = transform]_vars

\* a step raised after other steps of the same update had completed
C6_Witness == Threw /\ StepCalls(trace) >= 3 /\ fixedTimeStep # 0

\* C7: an update that returns refreshes the transforms exactly once, as its last
\* call: every step call of that update comes before the refresh.
C7_RefreshOnceLast ==
  Returned =>
    /\ Len(trace) >= 1
    /\ trace[Len(trace)] = RefreshCall
    /\ \A i \in 1..(Len(trace) - 1) : trace[i].op = "step"

\* an update that stepped several times and then refreshed
C7_Witness == Returned /\ StepCalls(trace) >= 2 /\ StepCalls(trace) < maxSubSteps

\* C8: a refresh gives every entity with a body previousPosition/previousRotation
\* equal to the position/rotation it held before, and position/rotation equal to
\* the body's; the transform of an entity whose body is null is left unchanged.
C8_RefreshPerEntity ==
  [][(Returned)' =>
       \A e \in Entities :
         IF body[e]
         THEN transform'[e] =
                [position |-> GetPosition(bodyTick'[e]),
                 rotation |-> GetRotation(bodyTick'[e]),
                 scale |-> transform[e].scale,
                 previousPosition |-> transform[e].position,
                 previousRotation |-> transform[e].rotation]
         ELSE transform'[e] = transform[e]]_vars

\* one refresh met an entity whose body had moved and an entity with a null body
\* whose transform still holds a pose that body left
C8_Witness ==
  /\ Returned
  /\ \E e \in Entities :
       /\ body[e]
       /\ transform[e].position # transform[e].previousPosition
       /\ transform[e].rotation # transform[e].previousRotation
  /\ \E e \in Entities : ~body[e]

\* C9 as stated: after every update the previous pose of a transform is the pose
\* its body had at the end of the prior fixed step, one fixed step behind the
\* pose the transform shows.
C9_PreviousOneStepBehind ==
  Returned =>
    \A e \in Entities :
      body[e] =>
        /\ transform[e].position = GetPosition(bodyTick[e])
        /\ transform[e].rotation = GetRotation(bodyTick[e])
        /\ transform[e].previousPosition = GetPosition(priorTick[e])
        /\ transform[e].previousRotation = GetRotation(priorTick[e])

Abs(n) == IF n < 0 THEN 0 - n ELSE n

\* r is the Fixed value nearest the blend from + (to - from) * alpha
NearestBlend(r, from, to, alpha) ==
  2 * Abs(FixedScale * (r - from) - (to - from) * alpha) <= FixedScale

\* C10: the interpolation queries return the linear blend of the previous and the
\* current pose at alpha, to the nearest value Fixed holds, without clamping:
\* exactly the previous pose at alpha = 0, exactly the current pose at alpha = 1,
\* the linear extrapolation outside [0, 1]; and they change no field.
C10_LinearBlend ==
  [][(lastOp = "interpolate")' =>
       LET t == transform[interp'.entity]
           alpha == interp'.alpha
           p == interp'.position
           r == interp'.rotation
       IN /\ NearestBlend(r, t.previousRotation, t.rotation, alpha)
          /\ \A i \in 1..2 : NearestBlend(p[i], t.previousPosition[i], t.position[i], alpha)
          /\ alpha = 0 => (r = t.previousRotation /\ p = t.previousPosition)
          /\ alpha = FixedScale => (r = t.rotation /\ p = t.position)
          /\ alpha = 2 * FixedScale =>
               /\ r = 2 * t.rotation - t.previousRotation
               /\ \A i \in 1..2 : p[i] = 2 * t.position[i] - t.previousPosition[i]
          /\ transform' = transform]_vars

\* a query past the current pose, of a transform whose two poses differ
C10_Witness ==
  /\ lastOp = "interpolate"
  /\ interp.alpha > FixedScale
  /\ LET t == transform[interp.entity]
     IN /\ t.rotation # t.previousRotation
        /\ Abs(interp.rotation - t.previousRotation) > Abs(t.rotation - t.previousRotation)

\* C11: the transform refresh changes only position, rotation, previousPosition
\* and previousRotation of transforms: scale, every collider and joint handle,
\* every body handle and every callback list are as before the update, the
\* accumulator is what the stepping loop left, and the bodies are where the
\* steps of the update left them (the refresh only reads them).
C11_RefreshFrame ==
  [][(Returned)' =>
       /\ \A e \in Entities : transform'[e].scale = transform[e].scale
       /\ collider' = collider
       /\ joint' = joint
       /\ body' = body
       /\ collisionComp' = collisionComp
       /\ callbacks' = callbacks
       /\ accumulator' = accumulator + NewFixed(lastDt') - StepCalls(trace') * fixedTimeStep
       /\ \A e \in Entities :
            bodyTick'[e] = IF body[e] THEN Advance(e, bodyTick[e], StepCalls(trace'))
                           ELSE bodyTick[e]]_vars

\* a refresh that moved the transform of an entity with a scale of its own, a
\* collider, a joint and a registered callback
C11_Witness ==
  /\ Returned
  /\ \E e \in Entities :
       /\ body[e] /\ collider[e] /\ joint[e] /\ collisionComp[e]
       /\ callbacks[e].onCollisionBegin # <<>>
       /\ transform[e].scale # <<FixedScale, FixedScale>>
       /\ transform[e].position # transform[e].previousPosition
       /\ accumulator > 0

Handled == lastOp = "handleCollisionEvent"

\* both bodies of the notification carry an entity
Resolves(data) == data.bodyA \in Entities /\ data.bodyB \in Entities

\* a begin notification or an end notification: exactly one flag is set
WellFormed(data) == data.isBeginContact # data.isEndContact

\* the collision list of the notification's kind
KindList(data) == IF data.isBeginContact THEN "onCollisionBegin" ELSE "onCollisionEnd"

\* the invocations, in order, of the callbacks registered on owner
OwnInvoked(log, owner) == SelectSeq(log, LAMBDA x : x.owner = owner)

\* how often callback is on list / among the invocations log
CountIn(list, callback) == Cardinality({i \in DOMAIN list : list[i] = callback})
CountInvoked(log, callback) == Cardinality({i \in DOMAIN log : log[i].callback = callback})

\* the two sides of a notification: <<owner, other>>
Sides(data) == {<<data.bodyA, data.bodyB>>, <<data.bodyB, data.bodyA>>}

\* C12: a notification one of whose bodies does not resolve to an entity
\* (getUserData gives null, a non-object, an object without id, or raises) is
\* discarded whole: no callback of either entity is invoked, and no exception
\* reaches the engine.
C12_UnresolvedDiscarded ==
  (Handled /\ ~Resolves(dispatch.data)) =>
     /\ dispatch.invoked = <<>>
     /\ ~dispatch.raised

\* a begin notification of an entity with begin callbacks and a body whose
\* getUserData raises
C12_Witness ==
  /\ Handled
  /\ dispatch.data.isBeginContact
  /\ dispatch.data.bodyA \in Entities
  /\ dispatch.data.bodyB = "throws"
  /\ collisionComp[dispatch.data.bodyA]
  /\ callbacks[dispatch.data.bodyA].onCollisionBegin # <<>>

\* C13: a begin (end) notification of entities A and B invokes every callback
\* registered on A's onCollisionBegin (onCollisionEnd) list once per registration,
\* with B, and every callback on B's list once per registration, with A; no
\* callback of the other kind is invoked; an entity without the component is
\* skipped and the other entity's callbacks still run.
C13_DispatchToBoth ==
  [][((Handled)' /\ Resolves(dispatch'.data) /\ WellFormed(dispatch'.data)) =>
       \A side \in Sides(dispatch'.data) :
         LET own == OwnInvoked(dispatch'.invoked, side[1])
             reg == callbacks[side[1]][KindList(dispatch'.data)]
         IN /\ \A c \in Callbacks : CountInvoked(own, c) = CountIn(reg, c)
            /\ CountInvoked(own, Late) >= CountIn(reg, Late)
            /\ \A i \in DOMAIN own :
                 /\ own[i].arg = side[2]
                 /\ own[i].list = KindList(dispatch'.data)
            /\ ~collisionComp[side[1]] => own = <<>>]_vars

\* an end notification that ran callbacks of both entities while a begin list
\* held a callback too
C13_Witness ==
  /\ Handled
  /\ dispatch.data.isEndContact /\ ~dispatch.data.isBeginContact
  /\ \A e \in Entities : OwnInvoked(dispatch.invoked, e) # <<>>
  /\ \E e \in Entities : callbacks[e].onCollisionBegin # <<>>

\* C14: a list is invoked in registration order and is not deduplicated: add
\* appends at the end whether or not the callback is on the list already, and a
\* dispatch goes through the list from its first registration to its last.
C14_RegistrationOrder ==
  [][/\ (lastOp' \in Lists) =>
          \E e \in Entities, c \in Callbacks :
            callbacks' = [callbacks EXCEPT ![e][lastOp'] = Append(@, c)]
     /\ ((Handled)' /\ Resolves(dispatch'.data) /\ WellFormed(dispatch'.data)) =>
          \A e \in Entities :
            LET own == OwnInvoked(dispatch'.invoked, e)
                reg == callbacks[e][KindList(dispatch'.data)]
            IN /\ Len(own) >= Len(reg)
               /\ \A i \in DOMAIN reg : own[i].callback = reg[i]]_vars

\* a callback registered twice with another one in between, invoked in that order
C14_Witness ==
  /\ Handled
  /\ \E e \in Entities :
       LET own == OwnInvoked(dispatch.invoked, e)
       IN /\ Len(own) = 3
          /\ own[1].callback = own[3].callback
          /\ own[1].callback # own[2].callback
          /\ callbacks[e][own[1].list] = <<own[1].callback, own[2].callback, own[3].callback>>

\* C15: a callback that raises stops nothing: the callbacks behind it on its list
\* and the callbacks of the other entity are still invoked, and
\* handleCollisionEvent returns normally.
C15_CallbackIsolation ==
  [][((Handled)' /\ Resolves(dispatch'.data) /\ WellFormed(dispatch'.data)) =>
       /\ ~dispatch'.raised
       /\ Len(dispatch'.invoked) >=
            Len(callbacks[dispatch'.data.bodyA][KindList(dispatch'.data)])
              + Len(callbacks[dispatch'.data.bodyB][KindList(dispatch'.data)])
       /\ \A i \in DOMAIN dispatch'.invoked :
            dispatch'.invoked[i].threw =>
              LET owner == dispatch'.invoked[i].owner
              IN Len(OwnInvoked(dispatch'.invoked, owner))
                   >= Len(callbacks[owner][KindList(dispatch'.data)])]_vars

\* the first callback of entity A raised; the next one of A and one of B ran
C15_Witness ==
  /\ Handled
  /\ Len(dispatch.invoked) = 3
  /\ dispatch.invoked[1].threw
  /\ dispatch.invoked[2].owner = dispatch.invoked[1].owner
  /\ dispatch.invoked[3].owner # dispatch.invoked[1].owner

\* C16: a notification with neither flag set is dropped: no callback is invoked
\* and no list changes.
C16_NeitherFlagDropped ==
  [][((Handled)' /\ ~dispatch'.data.isBeginContact /\ ~dispatch'.data.isEndContact) =>
       /\ dispatch'.invoked = <<>>
       /\ callbacks' = callbacks]_vars

\* such a notification of two entities that hold begin and end callbacks
C16_Witness ==
  /\ Handled
  /\ ~dispatch.data.isBeginContact /\ ~dispatch.data.isEndContact
  /\ Resolves(dispatch.data)
  /\ callbacks[dispatch.data.bodyA].onCollisionBegin # <<>>
  /\ callbacks[dispatch.data.bodyB].onCollisionEnd # <<>>

\* C17 as stated: a notification with both flags set is dropped like one with
\* neither: no begin callback and no end callback is invoked.
C17_BothFlagsDropped ==
  (Handled /\ dispatch.data.isBeginContact /\ dispatch.data.isEndContact) =>
     dispatch.invoked = <<>>

\* C18 as stated: a callback registered during the dispatch of a notification, on
\* the list of its own entity or of the other entity, is not invoked during that
\* notification: the callbacks invoked are those registered before it.
C18_RegisteredDuringDispatch ==
  [][((Handled)' /\ Resolves(dispatch'.data) /\ WellFormed(dispatch'.data)) =>
       \A e \in Entities :
         Len(OwnInvoked(dispatch'.invoked, e))
           <= Len(callbacks[e][KindList(dispatch'.data)])]_vars

\* C19 as stated: every notification the handler handles is also published on the
\* global event channel, whatever the per-entity lists hold.
C19_GlobalFanOut ==
  (Handled /\ Resolves(dispatch.data) /\ WellFormed(dispatch.data)) =>
     Len(dispatch.emitted) >= 1

\* C20 as stated: a sensor-begin (sensor-end) notification of entities A and B
\* invokes every callback of A's onSensorBegin (onSensorEnd) list with B and every
\* callback of B's list with A.
C20_SensorDispatch ==
  (Handled /\ dispatch.data.sensor /\ Resolves(dispatch.data)) =>
     \A side \in Sides(dispatch.data) :
       LET list == IF dispatch.data.isBeginContact THEN "onSensorBegin" ELSE "onSensorEnd"
       IN \A c \in Callbacks :
            Cardinality({i \in DOMAIN dispatch.invoked :
                           /\ dispatch.invoked[i].owner = side[1]
                           /\ dispatch.invoked[i].list = list
                           /\ dispatch.invoked[i].callback = c
                           /\ dispatch.invoked[i].arg = side[2]})
              = CountIn(callbacks[side[1]][list], c)

\* C26: while the physics world does not exist (the system was never added, its
\* onAddedToWorld is still awaiting the engine, or onRemovedFromWorld has run) an
\* update is a complete no-op: no engine step, no refresh, every transform and
\* body as before and the accumulator unchanged, so the frame's deltaTime is not
\* carried into later frames.  onRemovedFromWorld always leaves no physics world.
C26_NoWorldNoOp ==
  [][/\ (lastOp' = "update" /\ ~physicsWorld) =>
          /\ outcome' = "skipped"
          /\ trace' = <<>>
          /\ accumulator' = accumulator
          /\ transform' = transform
          /\ bodyTick' = bodyTick
          /\ priorTick' = priorTick
     /\ lastOp' = "onRemovedFromWorld" => ~physicsWorld'
     /\ (lastOp = "init" /\ lastOp' = "onAddedToWorld") => ~physicsWorld']_vars

\* an update with a positive deltaTime on a system that was removed from its
\* world while a backlog was on the accumulator
C26_Witness ==
  /\ lastOp = "update" /\ outcome = "skipped"
  /\ lastDt > 0
  /\ accumulator > 0
  /\ ~world /\ ~physicsWorld

\* the last update returned having made as many steps as the cap allows
Capped == Returned /\ StepCalls(trace) = maxSubSteps

\* C27 as stated: after an update that hit the cap and left the accumulator at or
\* above fixedTimeStep, updates with 0 <= dt <= (maxSubSteps - 1) * fixedTimeStep
\* bring the accumulator below fixedTimeStep after finitely many updates.
C27_Original ==
  (Capped /\ accumulator >= fixedTimeStep) ~> (accumulator < fixedTimeStep)

\* C27, amended: with 0 <= dt <= (maxSubSteps - 1) * fixedTimeStep every update
\* that hits the cap lowers the accumulator by at least fixedTimeStep, and when
\* fixedTimeStep is positive a backlog (accumulator >= fixedTimeStep) is followed,
\* after finitely many updates, by an accumulator below fixedTimeStep.
C27_CatchUp ==
  /\ [][(Capped)' => accumulator' <= accumulator - fixedTimeStep]_vars
  /\ (fixedTimeStep > 0 /\ accumulator >= fixedTimeStep) ~> (accumulator < fixedTimeStep)

\* a catch-up update of a system with a positive step that hit the cap and still
\* left a backlog
C27_Witness ==
  /\ Capped
  /\ fixedTimeStep > 0
  /\ accumulator >= fixedTimeStep
  /\ lastDt <= (maxSubSteps - 1) * ToNumber(fixedTimeStep)

\* the product of the raw values a and b needs no rounding
ExactProduct(a, b) == (a * b) % FixedScale = 0

\* the quotient of the raw value a by b needs no rounding
ExactQuotient(a, b) == (a * FixedScale) % (IF b > 0 THEN b ELSE 0 - b) = 0

\* the sine and cosine of the rotation r are exact: they are those of a rotation
ExactTrig(r) == Cos(r) * Cos(r) + Sin(r) * Sin(r) = FixedScale * FixedScale

\* the products the two rotation blocks compute on v need no rounding
ExactRotation(v, r) ==
  \A i \in 1..2 : ExactProduct(v[i], Cos(r)) /\ ExactProduct(v[i], Sin(r))

\* every division by the zoom made in mapping p to the screen and back, and in
\* mapping p to the world, needs no rounding
ExactDivisions(p) ==
  LET back == IF view.rotation # 0
              THEN Unrotate(mapped.toScreen, Cos(view.rotation), Sin(view.rotation))
              ELSE mapped.toScreen
      out == IF view.rotation # 0
             THEN Unrotate(p, Cos(view.rotation), Sin(view.rotation))
             ELSE p
  IN \A i \in 1..2 : ExactQuotient(back[i], view.zoom) /\ ExactQuotient(out[i], view.zoom)

\* every multiplication made in mapping p to the screen needs no rounding
ExactProducts(p) ==
  LET relativePos == VSubtract(p, view.position)
  IN /\ \A i \in 1..2 : ExactProduct(relativePos[i], view.zoom)
     /\ ExactRotation(VMultiply(relativePos, view.zoom), view.rotation)

Mapped == lastOp = "mapPoint"

\* C23 as stated: with a zoom other than zero, exact sine and cosine and exact
\* divisions by the zoom, screenToWorld(worldToScreen(p)) = p and
\* worldToScreen(screenToWorld(s)) = s.
C23_Original ==
  (Mapped /\ view.zoom # 0 /\ ExactTrig(view.rotation) /\ ExactDivisions(mapped.point)) =>
     /\ mapped.thereAndBack = mapped.point
     /\ mapped.backAndThere = mapped.point

\* C23, amended: with a zoom other than zero, exact sine and cosine and exact
\* divisions by the zoom, worldToScreen(screenToWorld(s)) = s; and
\* screenToWorld(worldToScreen(p)) = p when, in addition, the multiplications of
\* worldToScreen (by the zoom, by the sine and cosine) need no rounding.
C23_RoundTrip ==
  (Mapped /\ view.zoom # 0 /\ ExactTrig(view.rotation) /\ ExactDivisions(mapped.point)) =>
     /\ mapped.backAndThere = mapped.point
     /\ ExactProducts(mapped.point) => mapped.thereAndBack = mapped.point

\* a point mapped there and back exactly under a view that moves, turns and
\* scales it
C23_Witness ==
  /\ Mapped
  /\ view.position # <<0, 0>> /\ view.rotation # 0 /\ view.zoom # FixedScale
  /\ ExactTrig(view.rotation) /\ ExactDivisions(mapped.point)
  /\ ExactProducts(mapped.point)
  /\ mapped.toScreen # mapped.point
  /\ mapped.thereAndBack = mapped.point
  /\ mapped.backAndThere = mapped.point

\* the cosine and sine the general formula is taken with: those of the rotation,
\* which for no rotation are one and zero
GeneralCos(r) == IF r = 0 THEN FixedScale ELSE Cos(r)
GeneralSin(r) == IF r = 0 THEN 0 ELSE Sin(r)

\* C24: worldToScreen(p) is the rotation by viewRotation applied to
\* viewZoom * (p - viewPosition), and screenToWorld(s) is the inverse rotation
\* applied to s, divided by viewZoom, plus viewPosition; the shortcut taken when
\* viewRotation is zero gives what the general formula gives with cosine one and
\* sine zero.  Where no operation rounds, the results are those of the formulas
\* in exact arithmetic.
C24_MappingFormulas ==
  Mapped =>
    LET p == mapped.point
        cos == GeneralCos(view.rotation)
        sin == GeneralSin(view.rotation)
        relativePos == VSubtract(p, view.position)
        scaledPos == VMultiply(relativePos, view.zoom)
    IN /\ mapped.toScreen =
            <<FixedMultiply(scaledPos[1], cos) - FixedMultiply(scaledPos[2], sin),
              FixedMultiply(scaledPos[1], sin) + FixedMultiply(scaledPos[2], cos)>>
       /\ mapped.toWorld =
            VAdd(VDivide(<<FixedMultiply(p[1], cos) + FixedMultiply(p[2], sin),
                           FixedMultiply(p[2], cos) - FixedMultiply(p[1], sin)>>,
                         view.zoom),
                 view.position)
       /\ ExactProducts(p) =>
            /\ mapped.toScreen[1] * FixedScale * FixedScale
                 = view.zoom * (relativePos[1] * cos - relativePos[2] * sin)
            /\ mapped.toScreen[2] * FixedScale * FixedScale
                 = view.zoom * (relativePos[1] * sin + relativePos[2] * cos)
       /\ (ExactRotation(p, view.rotation) /\ ExactDivisions(p)) =>
            /\ (mapped.toWorld[1] - view.position[1]) * view.zoom = p[1] * cos + p[2] * sin
            /\ (mapped.toWorld[2] - view.position[2]) * view.zoom = p[2] * cos - p[1] * sin

\* a point off both axes mapped under a view that moves, turns by a quarter and
\* scales it, no operation rounding
C24_Witness ==
  /\ Mapped
  /\ view.position # <<0, 0>> /\ view.rotation = QuarterTurn /\ view.zoom = 2 * FixedScale
  /\ mapped.point[1] # 0 /\ mapped.point[2] # 0
  /\ ExactProducts(mapped.point)
  /\ ExactRotation(mapped.point, view.rotation) /\ ExactDivisions(mapped.point)

\* C25: setViewTransform replaces position, rotation and zoom wholesale and
\* resetViewTransform sets them to zero, zero and one; nothing derived is cached,
\* so after any sequence of the two the mappings are those of the fields set
\* last, and on a fresh or a reset renderer both mappings are the identity.
C25_ViewReplaced ==
  /\ view = mapped.lastSet
  /\ lastOp = "resetViewTransform" => view = IdentityView
  /\ Mapped =>
       /\ mapped.toScreen = WorldToScreen(mapped.lastSet, mapped.point)
       /\ mapped.toWorld = ScreenToWorld(mapped.lastSet, mapped.point)
       /\ mapped.lastSet = IdentityView =>
            mapped.toScreen = mapped.point /\ mapped.toWorld = mapped.point

\* a point mapped by a renderer whose view was reset and then set to move, turn
\* and scale
C25_Witness ==
  /\ Mapped
  /\ mapped.lastSet.position # <<0, 0>>
  /\ mapped.lastSet.rotation = HalfTurn
  /\ mapped.lastSet.zoom = 2 * FixedScale
  /\ mapped.toScreen # mapped.point
  /\ mapped.toScreen = WorldToScreen(mapped.lastSet, mapped.point)

\* the number of times call is among calls
Times(calls, call) == Cardinality({i \in DOMAIN calls : calls[i] = call})

\* C22 as stated: the maxSubSteps of the plugin's config is the greatest number
\* of engine steps the world system the plugin created makes in one update.
C22_ConfiguredCap ==
  (Returned /\ plugin.phase = "installed") => StepCalls(trace) <= plugin.maxSubSteps

\* C28 as stated: over install followed by uninstall, with autoCreateSystems, the
\* engine's initialize is called exactly once, before createWorld, and its
\* destroy exactly once, after the physics world is destroyed.
C28_EngineLifecycle ==
  (plugin.phase = "uninstalled" /\ plugin.autoCreateSystems) =>
     /\ Times(plugin.calls, "initialize") = 1
     /\ Times(plugin.calls, "destroy") = 1
     /\ \A i, j \in DOMAIN plugin.calls :
          /\ (plugin.calls[i] = "initialize" /\ plugin.calls[j] = "createWorld") => i < j
          /\ (plugin.calls[i] = "destroyWorld" /\ plugin.calls[j] = "destroy") => i < j

\* C21 as stated: after any sequence of additions and removals handled by the
\* body system, every body that has not been destroyed carries no user data or
\* the entity whose RigidBodyComponent holds that body: no entity is the user
\* data of a live body its component does not hold.
C21_BackReferences == \A e \in Entities : leaked[e] = 0

\* C29: in the body, collider and joint systems destroy() is called at most once
\* on a handle and the field is cleared right after it: no component references
\* a handle that received destroy(), so none can receive it twice, whatever the
\* order of onEntityAdded, update and onEntityRemoved; after an onEntityRemoved
\* (the first or a repeated one, or one that follows the joint update's destroy)
\* the field is null.
C29_DestroyedOnce ==
  /\ \A k \in Kinds, e \in Entities : destroyed[k][e] = 0
  /\ lastOp = "jointOnEntityRemoved" => \A e \in JointOwners : ~joint[e]
  /\ lastOp = "colliderOnEntityRemoved" => \A e \in Dynamic : ~collider[e]

\* onEntityRemoved for an entity whose joint the joint system's update had
\* destroyed already
C29_Witness ==
  /\ lastOp = "jointOnEntityRemoved"
  /\ \E e \in JointOwners : jointDestroyedBy[e] = "update" /\ ~joint[e] /\ ~jointActive[e]

\* C30: the joint follows the active flag.  An update finding an active component
\* without joint creates it, provided the physics world exists and createJoint
\* does not raise; an update finding an inactive component whose joint reports
\* isActive() destroys the joint and clears the field; no operation gives an
\* inactive component a joint.
C30_JointFollowsActive ==
  [][\A e \in JointOwners :
       /\ (lastOp' = "jointUpdate" /\ jointActive[e] /\ ~joint[e] /\ physicsWorld
             /\ trace'[1] = EngineGives("createJoint", 1)) => joint'[e]
       /\ (lastOp' = "jointUpdate" /\ ~jointActive[e] /\ joint[e]
             /\ trace'[2] = EngineGives("isActive", 1)) =>
            ~joint'[e] /\ jointDestroyedBy'[e] = "update"
       /\ (~jointActive[e] /\ ~joint[e]) => ~joint'[e]]_vars

\* an update has given back its joint to a component that was switched off, lost
\* the joint to an update, and was switched on again
C30_Witness ==
  /\ lastOp = "jointUpdate"
  /\ trace[1] = EngineGives("createJoint", 1)
  /\ \E e \in JointOwners : jointActive[e] /\ joint[e] /\ jointDestroyedBy[e] = "update"

====
